---- MODULE Spec2Model ----
(***************************************************************************)
(* Bello reference manager: the record store (Database.h), the browser     *)
(* connector's POST /connector/save handler (BrowserConnector.h), the file *)
(* import entry points (LeftSection.h) and the UI handlers that write the  *)
(* store.                                                                  *)
(*                                                                         *)
(* A std::string is a sequence of one-character strings, so that the SQL   *)
(* text the store builds by concatenation can be read back the way the     *)
(* engine reads it.  The alphabet is letters, digits, '/', ' ' and the     *)
(* apostrophe.                                                             *)
(***************************************************************************)
EXTENDS Integers, Sequences, FiniteSets, TLC

VARIABLES items, collections, item_collections, files, uuids, steps, last

\* parseBibTeXFile: the text, the scan position, the result, the place in the
\* loops (pc), the entry at hand, the field cursor, the Item being filled in
\* and the locals of the last iteration of the field loop (name, raw value)
VARIABLES content, pos, out, pc, entry, j, cur, field

\* BrowserConnector, one accepted connection: the bytes the client sends on
\* it (stream), how many of them have reached the socket (arrived), the
\* handler's buffer and processed flag, and the requests it has dispatched
VARIABLES stream, arrived, buffer, processed, handled

vars == <<items, collections, item_collections, files, uuids, steps, last,
          content, pos, out, pc, entry, j, cur, field,
          stream, arrived, buffer, processed, handled>>

parserVars == <<content, pos, out, pc, entry, j, cur, field>>

socketVars == <<stream, arrived, buffer, processed, handled>>

----------------------------------------------------------------------------
(* Strings *)

Empty == <<>>

Apos == "'"

\* byte order of the characters used (ORDER BY on TEXT is binary)
CharOrder == <<" ", "'", "-", "/", "0", "1", "2", "3", "4", "5", "A", "B", "L", "N", "R", "U",
               "a", "b", "c", "d", "e", "i", "o", "s", "t", "u", "v", "w", "y">>

Ord(c) == CHOOSE k \in 1..Len(CharOrder) : CharOrder[k] = c

RECURSIVE StrLess(_, _)
StrLess(a, b) ==
    IF b = <<>> THEN FALSE
    ELSE IF a = <<>> THEN TRUE
    ELSE IF Head(a) = Head(b) THEN StrLess(Tail(a), Tail(b))
    ELSE Ord(Head(a)) < Ord(Head(b))

RECURSIVE SortStrings(_)
SortStrings(S) ==
    IF S = {} THEN <<>>
    ELSE LET m == CHOOSE x \in S : \A y \in S : ~StrLess(y, x)
         IN <<m>> \o SortStrings(S \ {m})

\* QString::trimmed().isEmpty()
IsBlank(s) == \A k \in 1..Len(s) : s[k] = " "

----------------------------------------------------------------------------
(* SQL text *)

\* Database.h escapeSQL: every apostrophe is doubled
RECURSIVE escapeSQL(_)
escapeSQL(s) ==
    IF s = <<>> THEN <<>>
    ELSE (IF Head(s) = Apos THEN <<Apos, Apos>> ELSE <<Head(s)>>) \o escapeSQL(Tail(s))

\* What the engine reads when the text s stands between two single quotes
\* of a statement: a doubled apostrophe is one apostrophe of the literal, a
\* single one ends the literal, and what follows it (a letter of s, or the
\* rest of the statement behind an unterminated literal) is a syntax error.
RECURSIVE SqlLit(_)
SqlLit(s) ==
    IF s = <<>> THEN [ok |-> TRUE, text |-> <<>>]
    ELSE IF Head(s) # Apos
         THEN LET r == SqlLit(Tail(s)) IN [ok |-> r.ok, text |-> <<Head(s)>> \o r.text]
    ELSE IF Len(s) >= 2 /\ s[2] = Apos
         THEN LET r == SqlLit(SubSeq(s, 3, Len(s))) IN [ok |-> r.ok, text |-> <<Apos>> \o r.text]
    ELSE [ok |-> FALSE, text |-> <<>>]

\* a column that was never written; Value::ToString() prints it as NULL
Null == <<"\\N">>

ValueToString(v) == IF v = Null THEN <<"N", "U", "L", "L">> ELSE v

----------------------------------------------------------------------------
(* struct Item *)

\* the fields connector merges with mergeIfEmpty
MergedFields == {"title", "authors", "year", "type", "doi", "isbn", "publisher", "pages",
                 "volume", "number", "journal", "url", "abstract"}

\* canonical scalar fields
ScalarFields == MergedFields \cup
                {"address", "editor", "booktitle", "series", "edition", "chapter", "school",
                 "institution", "organization", "howpublished", "language", "keywords",
                 "month", "note"}

\* the columns written by the seed INSERT of Database::init
SeedColumns == {"id", "title", "authors", "year", "doi", "pdf_path", "collection"}

\* JSON text of the extra column: the empty string, text that is not a JSON
\* object, or an object (a map from keys to JSON values)
NoMap == [k \in {} |-> Empty]

EmptyExtra == [kind |-> "empty", map |-> NoMap]

GarbageExtra == [kind |-> "garbage", map |-> NoMap]

ObjExtra(m) == [kind |-> "obj", map |-> m]

JStr(s) == [t |-> "str", s |-> s]

JNum(s) == [t |-> "num", s |-> s]

\* QJsonValue::toString(): the string of a string value, a null QString otherwise
JToString(v) == IF v.t = "str" THEN v.s ELSE Empty

\* Item{}: every std::string member empty
Item ==
    [f \in ScalarFields \cup {"id", "collection"} |-> Empty] @@
    [f \in {"pdf_path"} |-> <<>>] @@ [f \in {"extra"} |-> EmptyExtra]

\* QJsonDocument::fromJson(...).object(), an empty object unless the text is an object
ParseExtra(x) == IF x.kind = "obj" THEN x.map ELSE NoMap

NullExtra == [kind |-> "null", map |-> NoMap]

CharFields == ScalarFields \cup {"id", "collection"}

----------------------------------------------------------------------------
(* class Database: the three tables are db.items (a set of rows),           *)
(* db.collections (a set of names) and db.item_collections (a set of rows)  *)

\* the values of an INSERT or UPDATE of a whole Item: every text member goes
\* through escapeSQL and is read back by the engine as a literal
Quoted(it) ==
    [ok  |-> \A f \in CharFields : SqlLit(escapeSQL(it[f])).ok,
     row |-> [f \in DOMAIN it |->
                 IF f \in CharFields THEN SqlLit(escapeSQL(it[f])).text ELSE it[f]]]

\* the Item a SELECT of all columns fills in: GetValue(c, 0).ToString()
RowToItem(r) ==
    [f \in DOMAIN r |->
        IF f \in CharFields THEN ValueToString(r[f])
        ELSE IF f = "extra" THEN (IF r[f] = NullExtra THEN GarbageExtra ELSE r[f])
        ELSE r[f]]

\* Database::getItemCollections
getItemCollections(db, itemId) ==
    IF itemId = Empty \/ ~SqlLit(itemId).ok THEN <<>>
    ELSE SortStrings({x.collection :
                        x \in {y \in db.item_collections : y.item_id = SqlLit(itemId).text}})

\* UPDATE items SET collection='<c>' WHERE id='<itemId>', both spliced in unescaped
SetPrimaryCollection(db, itemId, c) ==
    IF SqlLit(itemId).ok /\ SqlLit(c).ok
    THEN [db EXCEPT !.items =
            {IF r.id = SqlLit(itemId).text THEN [r EXCEPT !.collection = SqlLit(c).text] ELSE r
               : r \in db.items}]
    ELSE db

\* Database::addItemToCollection
addItemToCollection(db, itemId, collection) ==
    IF itemId = Empty \/ collection = Empty THEN db
    ELSE LET d1 == [db EXCEPT !.collections = @ \cup {collection}]
             d2 == IF SqlLit(itemId).ok /\ SqlLit(collection).ok
                   THEN [d1 EXCEPT !.item_collections =
                           @ \cup {[item_id |-> SqlLit(itemId).text,
                                    collection |-> SqlLit(collection).text]}]
                   ELSE d1
             colls == getItemCollections(d2, itemId)
         IN IF colls # <<>> THEN SetPrimaryCollection(d2, itemId, colls[1]) ELSE d2

\* Database::removeItemFromCollection
removeItemFromCollection(db, itemId, collection) ==
    IF itemId = Empty \/ collection = Empty THEN db
    ELSE LET d1 == IF SqlLit(itemId).ok /\ SqlLit(collection).ok
                   THEN [db EXCEPT !.item_collections =
                           @ \ {[item_id |-> SqlLit(itemId).text,
                                 collection |-> SqlLit(collection).text]}]
                   ELSE db
             colls == getItemCollections(d1, itemId)
             newPrimary == IF colls = <<>> THEN Empty ELSE colls[1]
         IN SetPrimaryCollection(d1, itemId, newPrimary)

\* Database::addCollection: the name is bound to a prepared statement
addCollection(db, name) ==
    IF name = Empty THEN db ELSE [db EXCEPT !.collections = @ \cup {name}]

\* Database::addItem; accept is the engine's verdict on a well-formed INSERT
\* (FALSE: HasError for a reason outside the statement, such as a failed write)
addItem(db, it, accept) ==
    LET q  == Quoted(it)
        d1 == IF accept /\ q.ok /\ ~\E r \in db.items : r.id = q.row.id
              THEN [db EXCEPT !.items = @ \cup {q.row}]
              ELSE db
    IN IF it.collection # Empty THEN addItemToCollection(d1, it.id, it.collection) ELSE d1

\* whether that INSERT stored the row
addItemStored(db, it, accept) ==
    accept /\ Quoted(it).ok /\ ~\E r \in db.items : r.id = Quoted(it).row.id

\* Database::updateItem
updateItem(db, it, accept) ==
    LET d1 == IF it.collection # Empty /\ SqlLit(it.collection).ok
              THEN [db EXCEPT !.collections = @ \cup {SqlLit(it.collection).text}]
              ELSE db
        q  == Quoted(it)
    IN IF accept /\ q.ok
       THEN [d1 EXCEPT !.items = {IF r.id = q.row.id THEN q.row ELSE r : r \in d1.items}]
       ELSE d1

\* the rows a SELECT ... WHERE doi='<doi>' LIMIT 1 may return (no ORDER BY)
findItemByDOI(db, doi) ==
    IF doi = Empty \/ ~SqlLit(doi).ok THEN {}
    ELSE {r \in db.items : r.doi = SqlLit(doi).text}

findItemByISBN(db, isbn) ==
    IF isbn = Empty \/ ~SqlLit(isbn).ok THEN {}
    ELSE {r \in db.items : r.isbn = SqlLit(isbn).text}

findItemByTitleAndAuthor(db, title, authors) ==
    IF title = Empty \/ authors = Empty \/ ~SqlLit(title).ok \/ ~SqlLit(authors).ok THEN {}
    ELSE {r \in db.items : r.title = SqlLit(title).text /\ r.authors = SqlLit(authors).text}

\* ic.collection LIKE '<collection>/%' of listItemsInCollection (line 275), for
\* names without the wildcards % and _
LikePrefix(collName, prefix) ==
    Len(collName) >= Len(prefix) /\ SubSeq(collName, 1, Len(prefix)) = prefix

\* Database::listItemsInCollection: the rows joined to a membership in the
\* collection or in one of its subcollections, the name spliced in unescaped
listItemsInCollection(db, collection) ==
    IF ~SqlLit(collection).ok THEN {}
    ELSE {r \in db.items :
            \E x \in db.item_collections :
                /\ x.item_id = r.id
                /\ \/ x.collection = SqlLit(collection).text
                   \/ LikePrefix(x.collection, SqlLit(collection).text \o <<"/">>)}

\* oldPrefix test of renameCollection and deleteCollection (lines 530-531, 572-573)
HasPrefix(collName, prefix) ==
    Len(collName) > Len(prefix) /\ SubSeq(collName, 1, Len(prefix)) = prefix

\* UPDATE collections SET name = to WHERE name = from, then
\* UPDATE items SET collection = to WHERE collection = from (prepared statements).
\* ok is FALSE when the first UPDATE breaks the primary key of collections.
RenameOne(st, from, to) ==
    IF ~st.ok THEN st
    ELSE IF from \in st.db.collections /\ to \in st.db.collections /\ from # to
         THEN [st EXCEPT !.ok = FALSE]
    ELSE [st EXCEPT
            !.db.collections = IF from \in @ THEN (@ \ {from}) \cup {to} ELSE @,
            !.db.items = {IF r.collection = from THEN [r EXCEPT !.collection = to] ELSE r
                            : r \in @}]

\* lines 529-542: the loop over listCollections(), which is ORDER BY name
RECURSIVE RenameSubcollections(_, _, _, _, _)
RenameSubcollections(st, allCollections, oldPrefix, newPrefix, k) ==
    IF k > Len(allCollections) THEN st
    ELSE LET collName == allCollections[k]
         IN RenameSubcollections(
                IF HasPrefix(collName, oldPrefix)
                THEN RenameOne(st, collName,
                               newPrefix \o SubSeq(collName, Len(oldPrefix) + 1, Len(collName)))
                ELSE st,
                allCollections, oldPrefix, newPrefix, k + 1)

\* Database::renameCollection; a statement that fails inside the transaction
\* aborts it, and the COMMIT of an aborted transaction rolls everything back
renameCollection(db, oldName, newName) ==
    IF oldName = Empty \/ newName = Empty \/ oldName = newName THEN db
    ELSE LET s1 == RenameOne([db |-> db, ok |-> TRUE], oldName, newName)
             s2 == RenameSubcollections(s1, SortStrings(s1.db.collections),
                                        oldName \o <<"/">>, newName \o <<"/">>, 1)
         IN IF s2.ok THEN s2.db ELSE db

\* Database::deleteCollection
deleteCollection(db, name) ==
    IF name = Empty THEN db
    ELSE LET gone == {c \in db.collections : c = name \/ HasPrefix(c, name \o <<"/">>)}
         IN [db EXCEPT
               !.collections = @ \ gone,
               !.items = {IF r.collection = name \/ r.collection \in gone
                          THEN [r EXCEPT !.collection = Empty] ELSE r : r \in @}]

\* Database::getItem: the rows SELECT ... WHERE id='<id>' LIMIT 1 may return
getItem(db, id) ==
    IF ~SqlLit(id).ok THEN {} ELSE {r \in db.items : r.id = SqlLit(id).text}

\* Database::deleteItem, lines 615-618: the two DELETE statements
deleteItem(db, id) ==
    IF id = Empty \/ ~SqlLit(id).ok THEN db
    ELSE [db EXCEPT
            !.item_collections = {x \in @ : x.item_id # SqlLit(id).text},
            !.items = {r \in @ : r.id # SqlLit(id).text}]

\* Database::deleteItem, lines 606-613: std::filesystem::remove of the whole
\* pdf_path text, which names a file only when the list holds one path
deleteItemFiles(db, fs, id) ==
    IF id = Empty THEN fs
    ELSE fs \ {r.pdf_path[1] : r \in {x \in getItem(db, id) : Len(x.pdf_path) = 1}}

----------------------------------------------------------------------------
(* State *)

Db == [items |-> items, collections |-> collections, item_collections |-> item_collections]

\* a faulty generator that hands out one identifier every time
gen_uuid_constant(k) == <<"u", "1">>

\* gen_uuid(): the k-th identifier handed out; no two calls return the same
gen_uuid(k) == <<"u", ToString(k)>>

SeedId == <<"seed-1">>

\* 'Rename or delete this collection'
SeedCollection == <<"R">>

\* the row and the tables Database::init leaves in a fresh database file
SeedRow ==
    [f \in CharFields |->
        IF f = "id" THEN SeedId
        ELSE IF f = "title" THEN <<"A">>
        ELSE IF f = "year" THEN <<"2", "0", "2", "5">>
        ELSE IF f = "collection" THEN SeedCollection
        ELSE IF f \in SeedColumns THEN Empty
        ELSE Null] @@
    [f \in {"pdf_path"} |-> <<>>] @@ [f \in {"extra"} |-> NullExtra]

\* a file of the attachment storage: <dir>/<stem>.<ext>, or <dir>/<stem>_<n>.<ext>
FilePath(dir, stem, n) == [dir |-> dir, stem |-> stem, n |-> n]

----------------------------------------------------------------------------
(* BrowserConnector: POST /connector/save *)

\* lines 144-147: the rows the three lookups can hand back, in priority order
IdentityMatches(db, doi, isbn, title, authors) ==
    IF doi # Empty /\ findItemByDOI(db, doi) # {} THEN findItemByDOI(db, doi)
    ELSE IF isbn # Empty /\ findItemByISBN(db, isbn) # {} THEN findItemByISBN(db, isbn)
    ELSE IF title # Empty /\ authors # Empty
         THEN findItemByTitleAndAuthor(db, title, authors)
    ELSE {}

\* lines 157-160: bibtexType, when sent, replaces type
IncomingType(data) == IF data.bibtexType # Empty THEN data.bibtexType ELSE data.type

\* lines 152-170: the Item built from the request, before the attachments
IncomingItem(data, storageId) ==
    [f \in DOMAIN Item |->
        IF f = "id" THEN storageId
        ELSE IF f = "type" THEN IncomingType(data)
        ELSE IF f \in MergedFields \cup {"pdf_path"} THEN data[f]
        ELSE Item[f]]

\* a placement that takes the index it is given, whether or not it is free
UniqueIndex_first(fs, dir, stem, n) == n

\* lines 205-215: the first name not taken in the item's directory
RECURSIVE UniqueIndex(_, _, _, _)
UniqueIndex(fs, dir, stem, n) ==
    IF FilePath(dir, stem, n) \in fs THEN UniqueIndex(fs, dir, stem, n + 1) ELSE n

\* lines 194-225: write each attachment; opens[k] says whether QFile::open succeeds
RECURSIVE WriteAttachments(_, _, _, _, _)
WriteAttachments(fs, dir, atts, opens, k) ==
    IF k > Len(atts) THEN [files |-> fs, savedPaths |-> <<>>]
    ELSE IF atts[k].filename = "" \/ ~atts[k].data
         THEN WriteAttachments(fs, dir, atts, opens, k + 1)
    ELSE LET outPath == FilePath(dir, atts[k].filename, UniqueIndex(fs, dir, atts[k].filename, 0))
         IN IF opens[k]
            THEN LET rest == WriteAttachments(fs \cup {outPath}, dir, atts, opens, k + 1)
                 IN [files |-> rest.files, savedPaths |-> <<outPath>> \o rest.savedPaths]
            ELSE WriteAttachments(fs, dir, atts, opens, k + 1)

\* a faulty merge that lets a non-empty incoming value win
mergeIfEmpty_overwriting(dest, src) == IF src # Empty THEN src ELSE dest

\* line 250
mergeIfEmpty(dest, src) == IF dest = Empty /\ src # Empty THEN src ELSE dest

\* lines 265-271: pdf_path, a ';'-joined list, is a sequence of paths
MergePdfPath(existingPdf, itPdf) ==
    IF itPdf # <<>> THEN (IF existingPdf = <<>> THEN itPdf ELSE existingPdf \o itPdf)
    ELSE existingPdf

\* line 277: the keys of exNew that go into exOld
MergeExtraMap(exOld, exNew) ==
    [k \in DOMAIN exOld \cup DOMAIN exNew |->
        IF k \in DOMAIN exNew /\ (k \notin DOMAIN exOld \/ IsBlank(JToString(exOld[k])))
        THEN exNew[k] ELSE exOld[k]]

\* lines 275-278: the extra text of the merged record
MergeExtra(existingExtra, itExtra) ==
    LET merged == MergeExtraMap(ParseExtra(existingExtra), ParseExtra(itExtra))
    IN IF DOMAIN merged # {} THEN ObjExtra(merged) ELSE existingExtra

\* lines 250-278: existing after the merge of it
Merge(existing, it) ==
    [f \in DOMAIN existing |->
        IF f \in MergedFields THEN mergeIfEmpty(existing[f], it[f])
        ELSE IF f = "pdf_path" THEN MergePdfPath(existing.pdf_path, it.pdf_path)
        ELSE IF f = "extra" THEN MergeExtra(existing.extra, it.extra)
        ELSE existing[f]]

\* the steps of the handler in the order of the code: the identity lookup
\* (lines 144-147), the attachment files (181-238, when one is written), the
\* merge (246-278, when a record was found) and the store write (280-286)
SaveOrder(found, wrote) ==
    <<"identity">> \o (IF wrote THEN <<"attachment">> ELSE <<>>)
                   \o (IF found THEN <<"merge">> ELSE <<>>) \o <<"write">>

\* lines 130-291: the handler of a request whose body is the JSON object data.
\* opens[k] is whether the k-th attachment file can be opened for writing and
\* accept the engine's verdict on the INSERT or UPDATE of the item.
ConnectorSave(data, opens, accept) ==
    LET matches == IdentityMatches(Db, data.doi, data.isbn, data.title, data.authors)
        found   == matches # {}
    IN \E row \in (IF found THEN matches ELSE {SeedRow}) :
        LET existing  == IF found THEN RowToItem(row) ELSE Item
            storageId == IF found THEN existing.id ELSE gen_uuid(uuids + 1)
            w  == WriteAttachments(files, storageId, data.attachments, opens, 1)
            it == [IncomingItem(data, storageId) EXCEPT
                     !.pdf_path = IF w.savedPaths = <<>> THEN @
                                  ELSE IF @ = <<>> THEN w.savedPaths
                                  ELSE @ \o w.savedPaths,
                     !.extra = data.extra,
                     !.collection = data.collection]
            merged == Merge(existing, it)
            d == IF found
                 THEN updateItem(IF it.collection # Empty
                                 THEN addItemToCollection(Db, existing.id, it.collection)
                                 ELSE Db,
                                 merged, accept)
                 ELSE addItem(Db, it, accept)
        IN /\ items' = d.items
           /\ collections' = d.collections
           /\ item_collections' = d.item_collections
           /\ files' = w.files
           /\ uuids' = IF found THEN uuids ELSE uuids + 1
           /\ last' = [op |-> "save", found |-> found, it |-> it, accept |-> accept,
                       ok |-> TRUE, createdId |-> storageId, savedPaths |-> w.savedPaths,
                       order |-> SaveOrder(found, w.files # files)]

----------------------------------------------------------------------------
(* LeftSection.h: importBibTeX, importZoteroRDF, importEndNoteXML, importMendeleyXML *)

\* the loop over the parsed items: id = gen_uuid(), collection, addItem, ++count
RECURSIVE ImportLoop(_, _, _, _, _, _)
ImportLoop(db, parsed, collection, accepts, k, u) ==
    IF k > Len(parsed) THEN [db |-> db, count |-> 0]
    ELSE LET it   == [parsed[k] EXCEPT !.id = gen_uuid(u + 1), !.collection = collection]
             rest == ImportLoop(addItem(db, it, accepts[k]), parsed, collection, accepts,
                                k + 1, u + 1)
         IN [db |-> rest.db, count |-> rest.count + 1]

\* one import call on a file whose parser returned parsed
ImportFile(format, parsed, collection, accepts) ==
    LET r == ImportLoop(Db, parsed, collection, accepts, 1, uuids)
    IN /\ items' = r.db.items
       /\ collections' = r.db.collections
       /\ item_collections' = r.db.item_collections
       /\ uuids' = uuids + Len(parsed)
       /\ last' = [op |-> "import", format |-> format, parsed |-> parsed,
                   collection |-> collection, accepts |-> accepts, count |-> r.count,
                   order |-> <<"attachment", "write">>]
       /\ UNCHANGED files

----------------------------------------------------------------------------
(* UI handlers that write the store *)

\* RightSection.h onCollectionCheckChanged, for the selected items sel (a
\* sequence of ids) and the collection of the changed check box
RECURSIVE AddAllToCollection(_, _, _, _)
AddAllToCollection(db, sel, collection, k) ==
    IF k > Len(sel) THEN db
    ELSE AddAllToCollection(addItemToCollection(db, sel[k], collection), sel, collection, k + 1)

RECURSIVE RemoveAllFromCollection(_, _, _, _)
RemoveAllFromCollection(db, sel, collection, k) ==
    IF k > Len(sel) THEN db
    ELSE RemoveAllFromCollection(removeItemFromCollection(db, sel[k], collection),
                                 sel, collection, k + 1)

\* lines 190-198
wouldOrphan(db, sel) == \E k \in 1..Len(sel) : Len(getItemCollections(db, sel[k])) <= 1

onCollectionCheckChanged(sel, collection, checked) ==
    LET d == IF checked THEN AddAllToCollection(Db, sel, collection, 1)
             ELSE IF wouldOrphan(Db, sel) THEN Db
             ELSE RemoveAllFromCollection(Db, sel, collection, 1)
    IN /\ sel # <<>>
       /\ items' = d.items
       /\ collections' = d.collections
       /\ item_collections' = d.item_collections
       /\ last' = [op |-> "check", sel |-> sel, collection |-> collection,
                   checked |-> checked]
       /\ UNCHANGED <<files, uuids>>

\* CenterSection.h lines 164-167: the item leaves every collection it is in
RECURSIVE RemoveFromAll(_, _, _, _)
RemoveFromAll(db, itemId, currentColls, k) ==
    IF k > Len(currentColls) THEN db
    ELSE RemoveFromAll(removeItemFromCollection(db, itemId, currentColls[k]), itemId,
                       currentColls, k + 1)

\* CenterSection.h lines 161-171: the Move to Collection action of one item;
\* the menu offers the names of listCollections()
MoveToCollection(itemId, collName) ==
    LET currentColls == getItemCollections(Db, itemId)
        d == addItemToCollection(RemoveFromAll(Db, itemId, currentColls, 1), itemId, collName)
    IN /\ collName \in collections
       /\ items' = d.items
       /\ collections' = d.collections
       /\ item_collections' = d.item_collections
       /\ last' = [op |-> "move", itemId |-> itemId, collName |-> collName]
       /\ UNCHANGED <<files, uuids>>

\* CenterSection.h lines 172-176: the Copy to Collection action of one item
CopyToCollection(itemId, collName) ==
    LET d == addItemToCollection(Db, itemId, collName)
    IN /\ collName \in collections
       /\ items' = d.items
       /\ collections' = d.collections
       /\ item_collections' = d.item_collections
       /\ last' = [op |-> "copy", itemId |-> itemId, collName |-> collName]
       /\ UNCHANGED <<files, uuids>>

\* LeftSection.h createCollection, lines 244-251, with the name typed in
createCollection(name) ==
    LET d == addCollection(Db, name)
    IN /\ name # Empty
       /\ items' = d.items
       /\ collections' = d.collections
       /\ item_collections' = d.item_collections
       /\ last' = [op |-> "createCollection"]
       /\ UNCHANGED <<files, uuids>>

\* UI.h attachmentsList itemClicked and EventHandlers.h attachment drop:
\* lines 152-156 / 167-173, the paths not yet in the list are appended
RECURSIVE AppendNew(_, _, _)
AppendNew(existing, paths, k) ==
    IF k > Len(paths) THEN existing
    ELSE AppendNew(IF \E n \in 1..Len(existing) : existing[n] = paths[k]
                   THEN existing ELSE Append(existing, paths[k]),
                   paths, k + 1)

AddAttachments(itemId, paths, accept) ==
    \E row \in getItem(Db, itemId) :
        LET dbItem == [RowToItem(row) EXCEPT !.pdf_path = AppendNew(@, paths, 1)]
            d == updateItem(Db, dbItem, accept)
        IN /\ paths # <<>>
           /\ items' = d.items
           /\ collections' = d.collections
           /\ item_collections' = d.item_collections
           /\ last' = [op |-> "attach"]
           /\ UNCHANGED <<files, uuids>>

\* LeftSection.h renameCollection handler, line 175
RenameCollection(oldName, newName) ==
    LET d == renameCollection(Db, oldName, newName)
    IN /\ items' = d.items
       /\ collections' = d.collections
       /\ item_collections' = d.item_collections
       /\ last' = [op |-> "rename", oldName |-> oldName, newName |-> newName]
       /\ UNCHANGED <<files, uuids>>

\* LeftSection.h deleteCollection handler, line 73
DeleteCollection(name) ==
    LET d == deleteCollection(Db, name)
    IN /\ items' = d.items
       /\ collections' = d.collections
       /\ item_collections' = d.item_collections
       /\ last' = [op |-> "deleteCollection", name |-> name]
       /\ UNCHANGED <<files, uuids>>

\* CenterSection.h Delete action / onDeleteItem, for one selected item
DeleteItem(id) ==
    LET d == deleteItem(Db, id)
    IN /\ items' = d.items
       /\ collections' = d.collections
       /\ item_collections' = d.item_collections
       /\ files' = deleteItemFiles(Db, files, id)
       /\ last' = [op |-> "deleteItem", id |-> id]
       /\ UNCHANGED uuids

\* CenterSection.h onAdd, with the collection selected in the tree ("" for none)
onAdd(selected, accept) ==
    LET it == [Item EXCEPT !.id = gen_uuid(uuids + 1), !.title = <<"N">>,
                           !.collection = selected]
        d  == addItem(Db, it, accept)
    IN /\ items' = d.items
       /\ collections' = d.collections
       /\ item_collections' = d.item_collections
       /\ uuids' = uuids + 1
       /\ last' = [op |-> "add"]
       /\ UNCHANGED files

----------------------------------------------------------------------------
(* Importers.h parseBibTeXFile.  Positions are counted from 1, so the      *)
(* code's index k is k + 1 here and its "not found" (-1) is 0.             *)

\* the characters of a string literal
RECURSIVE Chars(_)
Chars(s) == IF s = "" THEN <<>> ELSE <<Head(s)>> \o Chars(Tail(s))

\* the string literal of a sequence of characters
RECURSIVE Str(_)
Str(s) == IF s = <<>> THEN "" ELSE Head(s) \o Str(Tail(s))

\* QChar::isSpace
isSpace(c) == c \in {" ", "\t", "\n", "\r"}

\* the characters of the texts that are no letter and no digit
Punctuation ==
    {" ", "@", "{", "}", "(", ")", ",", "=", "\"", "\\", ";", ":", "%", "&", "$", "'", "/",
     ".", "_", "-"}

\* QChar::isLetterOrNumber
isLetterOrNumber(c) == c \notin Punctuation

UpperCase ==
    [A |-> "a", B |-> "b", C |-> "c", D |-> "d", E |-> "e", F |-> "f", G |-> "g",
     H |-> "h", I |-> "i", J |-> "j", K |-> "k", L |-> "l", M |-> "m", N |-> "n",
     O |-> "o", P |-> "p", Q |-> "q", R |-> "r", S |-> "s", T |-> "t", U |-> "u",
     V |-> "v", W |-> "w", X |-> "x", Y |-> "y", Z |-> "z"]

\* QString::toLower
RECURSIVE toLower(_)
toLower(s) ==
    IF s = <<>> THEN <<>>
    ELSE <<IF Head(s) \in DOMAIN UpperCase THEN UpperCase[Head(s)] ELSE Head(s)>>
         \o toLower(Tail(s))

\* QString::indexOf(ch, from): the first position >= from that holds ch, or 0
indexOf(s, ch, from) ==
    LET hits == {k \in from..Len(s) : s[k] = ch}
    IN IF hits = {} THEN 0 ELSE CHOOSE k \in hits : \A h \in hits : k <= h

RECURSIVE trimLeft(_)
trimLeft(s) == IF s # <<>> /\ isSpace(Head(s)) THEN trimLeft(Tail(s)) ELSE s

RECURSIVE trimRight(_)
trimRight(s) ==
    IF s # <<>> /\ isSpace(s[Len(s)]) THEN trimRight(SubSeq(s, 1, Len(s) - 1)) ELSE s

\* QString::trimmed
trimmed(s) == trimRight(trimLeft(s))

\* lines 34-36 and 38-40: while the text starts with open and ends with close
RECURSIVE StripOuter(_, _, _)
StripOuter(s, open, close) ==
    IF Len(s) >= 2 /\ s[1] = open /\ s[Len(s)] = close
    THEN StripOuter(SubSeq(s, 2, Len(s) - 1), open, close)
    ELSE s

\* s.replace("\\<ch>", "<ch>"): every occurrence, left to right, not rescanned
RECURSIVE Unescape(_, _)
Unescape(s, ch) ==
    IF Len(s) < 2 THEN s
    ELSE IF s[1] = "\\" /\ s[2] = ch THEN <<ch>> \o Unescape(SubSeq(s, 3, Len(s)), ch)
    ELSE <<s[1]>> \o Unescape(Tail(s), ch)

\* s.replace(from, to) for single characters
ReplaceChar(s, from, to) == [k \in 1..Len(s) |-> IF s[k] = from THEN to ELSE s[k]]

\* s.replace(QRegularExpression("<ch>+"), "<ch>")
RECURSIVE Collapse(_, _)
Collapse(s, ch) ==
    IF Len(s) < 2 THEN s
    ELSE IF s[1] = ch /\ s[2] = ch THEN Collapse(Tail(s), ch)
    ELSE <<s[1]>> \o Collapse(Tail(s), ch)

\* a faulty cleaner that leaves the text as it is
cleanValue_untouched(s0) == s0

\* lines 31-56
cleanValue(s0) ==
    LET s1 == StripOuter(trimmed(s0), "{", "}")
        s2 == StripOuter(s1, "\"", "\"")
        s3 == Unescape(Unescape(Unescape(s2, "{"), "}"), "%")
        s4 == Unescape(Unescape(Unescape(s3, "&"), "_"), "$")
        s5 == trimmed(s4)
        s6 == IF s5 # <<>> /\ s5[Len(s5)] = "," THEN SubSeq(s5, 1, Len(s5) - 1) ELSE s5
        s7 == ReplaceChar(ReplaceChar(s6, "{", " "), "}", " ")
    IN trimmed(Collapse(s7, " "))

\* lines 58-64
sanitizeName(in) ==
    Collapse([k \in 1..Len(in) |->
                 IF isLetterOrNumber(in[k]) \/ in[k] \in {"_", "-"} THEN in[k] ELSE "_"],
             "_")

\* a scan that takes the end of the text for the matching close
MatchingClose_lenient(text, i, depth, openChar, closeChar) ==
    [i |-> Len(text) + 1, depth |-> 0]

\* lines 86-93: the scan for the matching close; i is the position behind
\* the last character read
RECURSIVE MatchingClose(_, _, _, _, _)
MatchingClose(text, i, depth, openChar, closeChar) ==
    IF i <= Len(text) /\ depth > 0
    THEN MatchingClose(text, i + 1,
                       IF text[i] = openChar THEN depth + 1
                       ELSE IF text[i] = closeChar THEN depth - 1
                       ELSE depth,
                       openChar, closeChar)
    ELSE [i |-> i, depth |-> depth]

\* lines 67-105: the next entry from position from on.  stop: the loop breaks.
EntryHeader(text, from) ==
    LET at         == indexOf(text, "@", from)
        startBrace == IF at = 0 THEN 0 ELSE indexOf(text, "{", at)
        startParen == IF at = 0 THEN 0 ELSE indexOf(text, "(", at)
        useBrace   == startBrace > 0 /\ (startParen = 0 \/ startBrace < startParen)
        start      == IF useBrace THEN startBrace ELSE startParen
        m          == IF useBrace THEN MatchingClose(text, start + 1, 1, "{", "}")
                      ELSE MatchingClose(text, start + 1, 1, "(", ")")
        entryBlock == SubSeq(text, start + 1, m.i - 2)
        comma      == indexOf(entryBlock, ",", 1)
    IN IF at = 0 \/ start = 0 \/ m.depth # 0
       THEN [stop |-> TRUE, at |-> at, i |-> 0, entryType |-> <<>>,
             citationKey |-> <<>>, fields |-> <<>>]
       ELSE [stop |-> FALSE, at |-> at, i |-> m.i,
             entryType |-> toLower(trimmed(SubSeq(text, at + 1, start - 1))),
             citationKey |-> IF comma > 0 THEN trimmed(SubSeq(entryBlock, 1, comma - 1))
                             ELSE <<>>,
             fields |-> IF comma > 0 THEN SubSeq(entryBlock, comma + 1, Len(entryBlock))
                        ELSE entryBlock]

\* line 112
RECURSIVE skipWs(_, _)
skipWs(fields, k) ==
    IF k <= Len(fields) /\ isSpace(fields[k]) THEN skipWs(fields, k + 1) ELSE k

\* line 120
RECURSIVE SkipName(_, _)
SkipName(fields, k) ==
    IF k <= Len(fields) /\ (isLetterOrNumber(fields[k]) \/ fields[k] \in {"_", "-"})
    THEN SkipName(fields, k + 1) ELSE k

\* line 126: on to the next ch or to the end
RECURSIVE SkipTo(_, _, _)
SkipTo(fields, k, ch) ==
    IF k <= Len(fields) /\ fields[k] # ch THEN SkipTo(fields, k + 1, ch) ELSE k

\* lines 140-144: stops on the closing brace, or behind the text
RECURSIVE BraceEnd(_, _, _)
BraceEnd(fields, k, vdepth) ==
    IF k <= Len(fields) /\ vdepth > 0
    THEN LET d == IF fields[k] = "{" THEN vdepth + 1
                  ELSE IF fields[k] = "}" THEN vdepth - 1 ELSE vdepth
         IN IF d > 0 THEN BraceEnd(fields, k + 1, d) ELSE k
    ELSE k

\* lines 151-154
RECURSIVE QuoteEnd(_, _)
QuoteEnd(fields, k) ==
    IF k <= Len(fields) /\ fields[k] # "\""
    THEN (IF fields[k] = "\\" /\ k + 1 <= Len(fields) THEN QuoteEnd(fields, k + 2)
          ELSE QuoteEnd(fields, k + 1))
    ELSE k

\* lines 166-170: behind the brace group that was opened
RECURSIVE GroupEnd(_, _, _)
GroupEnd(fields, k, vdepth) ==
    IF k <= Len(fields) /\ vdepth > 0
    THEN GroupEnd(fields, k + 1,
                  IF fields[k] = "{" THEN vdepth + 1
                  ELSE IF fields[k] = "}" THEN vdepth - 1 ELSE vdepth)
    ELSE k

\* lines 161-174
RECURSIVE UnquotedEnd(_, _)
UnquotedEnd(fields, k) ==
    IF k <= Len(fields) /\ fields[k] # ","
    THEN (IF fields[k] = "{" THEN UnquotedEnd(fields, GroupEnd(fields, k + 1, 1))
          ELSE UnquotedEnd(fields, k + 1))
    ELSE k

\* lines 134-176: the raw value that starts at k, and the cursor behind it
ReadValue(fields, k) ==
    IF k <= Len(fields) /\ fields[k] = "{"
    THEN LET e == BraceEnd(fields, k + 1, 1)
         IN [value |-> SubSeq(fields, k + 1, e - 1),
             j |-> IF e <= Len(fields) THEN e + 1 ELSE e]
    ELSE IF k <= Len(fields) /\ fields[k] = "\""
    THEN LET e == QuoteEnd(fields, k + 1)
         IN [value |-> SubSeq(fields, k + 1, e - 1),
             j |-> IF e <= Len(fields) THEN e + 1 ELSE e]
    ELSE LET e == UnquotedEnd(fields, k)
         IN [value |-> SubSeq(fields, k, e - 1), j |-> e]

\* QString::split(ch): the parts between the occurrences of ch, empty ones too
RECURSIVE Split(_, _)
Split(s, ch) ==
    LET k == indexOf(s, ch, 1)
    IN IF k = 0 THEN <<s>>
       ELSE <<SubSeq(s, 1, k - 1)>> \o Split(SubSeq(s, k + 1, Len(s)), ch)

\* the field names of lines 181-206 and the Item member each is assigned to
FieldNames ==
    {"title", "author", "year", "doi", "isbn", "abstract", "address", "publisher", "editor",
     "booktitle", "series", "edition", "chapter", "school", "institution", "organization",
     "howpublished", "language", "url", "journal", "pages", "volume", "number", "keywords",
     "month", "note"}

Member(name) == IF name = "author" THEN "authors" ELSE name

\* lines 213-222: the path of one segment of a file value
PathCandidate(seg) ==
    LET cols == Split(seg, ":")
    IN trimmed(IF Len(cols) >= 3 THEN cols[2]
               ELSE IF Len(cols) = 2 THEN cols[2]
               ELSE seg)

\* the directory of the .bib file
BibDir == <<"e">>

\* lines 226-228: the candidate resolved against the directory of the .bib file
SourcePath(pathCandidate) == FilePath(BibDir, Str(pathCandidate), 0)

\* lines 232-245: the name of the storage folder
StorageFolder(it, citationKey) ==
    IF it.doi # Empty THEN sanitizeName(it.doi)
    ELSE IF it.isbn # Empty THEN sanitizeName(it.isbn)
    ELSE IF citationKey # Empty THEN sanitizeName(citationKey)
    ELSE LET a0 == trimmed(Split(it.authors, ",")[1])
             a  == IF a0 = Empty THEN Chars("unknown") ELSE a0
             y  == IF it.year = Empty THEN Chars("0000") ELSE it.year
         IN sanitizeName(a \o <<"_">> \o y)

\* lines 210-274: the segments of a file value, one after the other;
\* copies[k] says whether copy_file of the k-th segment succeeds
RECURSIVE AttachFiles(_, _, _, _, _, _)
AttachFiles(parts, k, it, citationKey, fs, copies) ==
    IF k > Len(parts) THEN [cur |-> it, files |-> fs]
    ELSE LET pathCandidate == PathCandidate(trimmed(parts[k]))
             targetDir == StorageFolder(it, citationKey)
             fileName  == Str(pathCandidate)
             dest == FilePath(targetDir, fileName, UniqueIndex(fs, targetDir, fileName, 0))
         IN IF pathCandidate # Empty /\ SourcePath(pathCandidate) \in fs /\ copies[k]
            THEN AttachFiles(parts, k + 1, [it EXCEPT !.pdf_path = Append(@, dest)],
                             citationKey, fs \cup {dest}, copies)
            ELSE AttachFiles(parts, k + 1, it, citationKey, fs, copies)

\* split(';', Qt::SkipEmptyParts)
SkipEmptyParts(parts) == SelectSeq(parts, LAMBDA x : x # <<>>)

\* lines 178-280: the cleaned value assigned to the field name
Assign(it, name, raw, citationKey, fs, copies) ==
    LET v == cleanValue(raw)
    IN IF Str(name) \in FieldNames
       THEN [cur |-> [it EXCEPT ![Member(Str(name))] = v], files |-> fs]
       ELSE IF Str(name) = "file"
       THEN AttachFiles(SkipEmptyParts(Split(v, ";")), 1, it, citationKey, fs, copies)
       ELSE LET pair == name \o Chars(" = {") \o v \o <<"}">>
            IN [cur |-> [it EXCEPT !.note = IF @ = Empty THEN pair
                                            ELSE @ \o Chars("; ") \o pair],
                files |-> fs]

\* the locals name (line 121) and value (line 134); read: a value was read;
\* copied: for a file field, whether copy_file succeeds on each segment
NoField == [name |-> <<>>, value |-> <<>>, read |-> FALSE, copied |-> <<>>]

\* a faulty field loop that never moves the cursor
FieldIteration_stuck(fields, k0, it, citationKey, fs, copies) ==
    [j |-> k0, cur |-> it, files |-> fs, field |-> NoField]

\* a faulty field loop that gives up the rest of the field list
FieldIteration_aborting(fields, k0, it, citationKey, fs, copies) ==
    [j |-> Len(fields) + 1, cur |-> it, files |-> fs, field |-> NoField]

\* lines 115-284: one iteration of the field loop with the cursor at k0
FieldIteration(fields, k0, it, citationKey, fs, copies) ==
    LET k1   == skipWs(fields, k0)
        k2   == SkipName(fields, k1)
        name == toLower(trimmed(SubSeq(fields, k1, k2 - 1)))
        k3   == skipWs(fields, k2)
    IN IF k1 > Len(fields) THEN [j |-> k1, cur |-> it, files |-> fs, field |-> NoField]
       ELSE IF k3 > Len(fields) \/ fields[k3] # "="
       THEN LET k4 == SkipTo(fields, k3, ",")
            IN [j |-> IF k4 <= Len(fields) THEN k4 + 1 ELSE k4,
                cur |-> it, files |-> fs,
                field |-> [name |-> name, value |-> <<>>, read |-> FALSE, copied |-> <<>>]]
       ELSE LET rv == ReadValue(fields, skipWs(fields, k3 + 1))
                a  == Assign(it, name, rv.value, citationKey, fs, copies)
                k5 == skipWs(fields, rv.j)
            IN [j |-> IF k5 <= Len(fields) /\ fields[k5] = "," THEN k5 + 1 ELSE k5,
                cur |-> a.cur, files |-> a.files,
                field |-> [name |-> name, value |-> rv.value, read |-> TRUE,
                           copied |-> IF Str(name) = "file" THEN copies ELSE <<>>]]

\* line 288
Meaningful(it, citationKey) ==
    \/ it.title # Empty \/ it.authors # Empty \/ it.doi # Empty \/ it.isbn # Empty
    \/ it.pdf_path # <<>> \/ citationKey # Empty \/ it.url # Empty \/ it.note # Empty

----------------------------------------------------------------------------
(* BrowserConnector.h: the readyRead handler of a connection, lines 39-302. *)
(* Positions are counted from 1.                                            *)

\* the header terminator, line 45
HeaderEnd == <<"\r", "\n", "\r", "\n">>

\* QByteArray::indexOf(sep): the first position where sep stands, 0 for none
IndexOfSeq(s, sep) ==
    LET hits == {k \in 1..(Len(s) - Len(sep) + 1) : SubSeq(s, k, k + Len(sep) - 1) = sep}
    IN IF hits = {} THEN 0 ELSE CHOOSE k \in hits : \A h \in hits : k <= h

\* QByteArray::mid(pos, len), p = pos + 1: a negative len, or one that runs
\* over the end, gives the rest
Mid(s, p, len) ==
    IF p > Len(s) THEN <<>>
    ELSE IF len < 0 \/ len > Len(s) - p + 1 THEN SubSeq(s, p, Len(s))
    ELSE SubSeq(s, p, p + len - 1)

\* QByteArray::startsWith
startsWith(s, prefix) == Len(s) >= Len(prefix) /\ SubSeq(s, 1, Len(prefix)) = prefix

Digits == {"0", "1", "2", "3", "4", "5", "6", "7", "8", "9"}

DigitValue(c) == CHOOSE v \in 0..9 : ToString(v) = c

RECURSIVE DigitsValue(_, _)
DigitsValue(s, acc) ==
    IF s = <<>> THEN acc ELSE DigitsValue(Tail(s), 10 * acc + DigitValue(Head(s)))

\* QByteArray::toInt(): an optional sign and digits, 0 for anything else
toInt(s) ==
    LET signed == s # <<>> /\ Head(s) \in {"+", "-"}
        digits == IF signed THEN Tail(s) ELSE s
    IN IF digits = <<>> \/ \E k \in 1..Len(digits) : digits[k] \notin Digits THEN 0
       ELSE IF signed /\ Head(s) = "-" THEN 0 - DigitsValue(digits, 0)
       ELSE DigitsValue(digits, 0)

\* lines 50-58: the value of the first Content-Length line, 0 without one
RECURSIVE ContentLength(_, _)
ContentLength(headerLines, k) ==
    IF k > Len(headerLines) THEN 0
    ELSE IF startsWith(toLower(headerLines[k]), Chars("content-length:"))
         THEN toInt(trimmed(Mid(headerLines[k], 16, 0 - 1)))
    ELSE ContentLength(headerLines, k + 1)

\* lines 77-302: the route of the request line
Route(header) ==
    LET parts  == Split(trimmed(Split(header, "\n")[1]), " ")
        method == Str(parts[1])
        path   == parts[2]
    IN IF Len(parts) < 2 THEN "disconnect"
       ELSE IF method = "GET" /\ Str(path) = "/connector/status" THEN "status"
       ELSE IF method = "GET" /\ startsWith(path, Chars("/connector/items")) THEN "items"
       ELSE IF method = "POST" /\ Str(path) = "/connector/save" THEN "save"
       ELSE "notfound"

NoRequest == [route |-> "none", body |-> <<>>]

\* a faulty handler that forgets that it has dispatched
AlreadyHandled_never(flag) == FALSE

\* line 40
AlreadyHandled(flag) == flag

\* lines 40-72: one run of the handler on the bytes available on the socket;
\* dispatched: the request was handed to its route with body
readyRead(buf, flag, available) ==
    LET b             == buf \o available
        idx           == IndexOfSeq(b, HeaderEnd)
        header        == SubSeq(b, 1, idx - 1)
        contentLength == ContentLength(Split(header, "\n"), 1)
        bodyStart     == idx + Len(HeaderEnd)
        receivedBody  == Len(b) - bodyStart + 1
    IN IF AlreadyHandled(flag)
       THEN [buffer |-> buf, processed |-> flag, dispatched |-> FALSE, request |-> NoRequest]
       ELSE IF idx = 0 \/ receivedBody < contentLength
       THEN [buffer |-> b, processed |-> FALSE, dispatched |-> FALSE, request |-> NoRequest]
       ELSE [buffer |-> b, processed |-> TRUE, dispatched |-> TRUE,
             request |-> [route |-> Route(header), body |-> Mid(b, bodyStart, contentLength)]]

----------------------------------------------------------------------------
(* Inputs *)

MaxSteps == 2

D1 == <<"d">>

I1 == <<"i">>

T1 == <<"t">>

TApos == <<"t", "'", "s">>

A1 == <<"a">>

Y1 == <<"1">>

Y2 == <<"2">>

V1 == <<"v">>

W1 == <<"w">>

C1 == <<"c">>

CApos == <<"c", "'", "s">>

\* a path outside the storage directory
P1 == FilePath(<<"e">>, "p", 0)

Att1 == [filename |-> "f", data |-> TRUE]

\* the keys the handler reads from data, all absent
NoData ==
    [f \in MergedFields \cup {"bibtexType", "collection"} |-> Empty] @@
    [f \in {"pdf_path", "attachments"} |-> <<>>] @@ [f \in {"extra"} |-> EmptyExtra]

Data(given) == given @@ NoData

\* requests that differ in their identity keys
IdentityPayloads ==
    { Data([doi |-> D1]),
      Data([isbn |-> I1]),
      Data([title |-> T1, authors |-> A1]),
      Data([doi |-> D1, isbn |-> I1]),
      Data([title |-> TApos, authors |-> A1]),
      Data([doi |-> D1, title |-> T1, collection |-> C1]),
      Data([doi |-> D1, pdf_path |-> <<P1>>, attachments |-> <<Att1>>]) }

\* what parseBibTeXFile returns for a file: Items with id and collection empty
Entry(given) == given @@ Item

BibFiles ==
    { << Entry([type |-> <<"b">>, doi |-> D1]), Entry([type |-> <<"b">>, isbn |-> I1]) >>,
      << Entry([type |-> <<"a">>, title |-> TApos, authors |-> A1, editor |-> <<"e">>]) >>,
      << Entry([type |-> <<"a">>, doi |-> D1, editor |-> <<"e">>]) >> }

\* what the line scanners of the other three formats can fill in
OtherFiles == { << Entry([title |-> T1, authors |-> A1, doi |-> D1]) >> }

ImportCollections == {Empty, C1}

Ids == {r.id : r \in items}

\* no entry at hand
NoEntry ==
    [stop |-> FALSE, at |-> 0, i |-> 0, entryType |-> <<>>, citationKey |-> <<>>,
     fields |-> <<>>]

\* no connection has been accepted
SocketIdle ==
    /\ stream = <<>> /\ arrived = 0 /\ buffer = <<>> /\ processed = FALSE
    /\ handled = <<>>

\* parseBibTeXFile is not running
ParserIdle ==
    /\ content = <<>> /\ pos = 1 /\ out = <<>> /\ pc = "idle"
    /\ entry = NoEntry /\ j = 1 /\ cur = Item /\ field = NoField

----------------------------------------------------------------------------
(* Specification *)

Init ==
    /\ items = {SeedRow}
    /\ collections = {SeedCollection}
    /\ item_collections = {[item_id |-> SeedId, collection |-> SeedCollection]}
    /\ files = {}
    /\ uuids = 0
    /\ steps = 0
    /\ last = [op |-> "init"]
    /\ ParserIdle
    /\ SocketIdle

Tick == steps < MaxSteps /\ steps' = steps + 1 /\ UNCHANGED <<parserVars, socketVars>>

Save ==
    \E data \in IdentityPayloads, accept \in BOOLEAN :
        \E opens \in [1..Len(data.attachments) -> BOOLEAN] :
            Tick /\ ConnectorSave(data, opens, accept)

importBibTeX ==
    \E parsed \in BibFiles, collection \in ImportCollections :
        \E accepts \in [1..Len(parsed) -> BOOLEAN] :
            Tick /\ ImportFile("bib", parsed, collection, accepts)

importZoteroRDF ==
    \E parsed \in OtherFiles, accept \in BOOLEAN :
        Tick /\ ImportFile("rdf", parsed, C1, <<accept>>)

importEndNoteXML ==
    \E parsed \in OtherFiles, accept \in BOOLEAN :
        Tick /\ ImportFile("endnote", parsed, C1, <<accept>>)

importMendeleyXML ==
    \E parsed \in OtherFiles, accept \in BOOLEAN :
        Tick /\ ImportFile("mendeley", parsed, C1, <<accept>>)

CollectionCheck ==
    \E id \in Ids, collection \in collections, checked \in BOOLEAN :
        Tick /\ onCollectionCheckChanged(<<id>>, collection, checked)

Attach ==
    \E id \in Ids, accept \in BOOLEAN :
        Tick /\ AddAttachments(id, <<P1>>, accept)

Rename ==
    \E oldName \in collections, newName \in {C1, <<"c", "/", "s">>} :
        Tick /\ RenameCollection(oldName, newName)

DeleteColl == \E name \in collections : Tick /\ DeleteCollection(name)

Delete == \E id \in Ids : Tick /\ DeleteItem(id)

Add == \E selected \in collections \cup {Empty} : Tick /\ onAdd(selected, TRUE)

Next ==
    \/ Save
    \/ importBibTeX
    \/ importZoteroRDF
    \/ importEndNoteXML
    \/ importMendeleyXML
    \/ CollectionCheck
    \/ Attach
    \/ Rename
    \/ DeleteColl
    \/ Delete
    \/ Add

Spec == Init /\ [][Next]_vars

----------------------------------------------------------------------------
(* The connector alone, on requests that all carry the DOI D1 and differ in *)
(* what else they carry: after the first one every request is a merge.      *)

MaxMergeSteps == 3

ExtraK(v) == ObjExtra([k \in {"k"} |-> v])

MergePayloads ==
    { Data([doi |-> D1]),
      Data([doi |-> D1, year |-> Y1]),
      Data([doi |-> D1, year |-> Y2, isbn |-> I1]),
      Data([doi |-> D1, title |-> T1, authors |-> A1]),
      Data([doi |-> D1, type |-> <<"a">>, bibtexType |-> <<"b">>]),
      Data([doi |-> D1, type |-> <<"a">>]),
      Data([doi |-> D1, pdf_path |-> <<P1>>]),
      Data([doi |-> D1, attachments |-> <<Att1>>]),
      Data([doi |-> D1, extra |-> ExtraK(JStr(V1))]),
      Data([doi |-> D1, extra |-> ObjExtra([k \in {"k", "j"} |-> JStr(W1)])]),
      Data([doi |-> D1, extra |-> ExtraK(JStr(<<" ">>))]),
      Data([doi |-> D1, extra |-> ExtraK(JNum(<<"5">>))]),
      Data([doi |-> D1, extra |-> GarbageExtra]),
      Data([doi |-> D1, extra |-> ObjExtra([k \in {"title"} |-> JStr(V1)])]),
      Data([doi |-> D1, collection |-> C1]),
      Data([doi |-> D1, collection |-> CApos]) }

MergeTick == steps < MaxMergeSteps /\ steps' = steps + 1 /\ UNCHANGED <<parserVars, socketVars>>

MergeSave ==
    \E data \in MergePayloads, accept \in BOOLEAN :
        \E opens \in [1..Len(data.attachments) -> BOOLEAN] :
            MergeTick /\ ConnectorSave(data, opens, accept)

SpecMerge == Init /\ [][MergeSave]_vars

----------------------------------------------------------------------------
(* The membership actions of the window: collections are created, records   *)
(* are added, checked into and out of collections, moved and copied.        *)

MaxMemberSteps == 4

CollectionNames == {C1, CApos}

MemberTick == steps < MaxMemberSteps /\ steps' = steps + 1 /\ UNCHANGED <<parserVars, socketVars>>

MemberCreate == \E name \in CollectionNames : MemberTick /\ createCollection(name)

MemberAdd == \E selected \in collections : MemberTick /\ onAdd(selected, TRUE)

MemberCheck ==
    \E id \in Ids, collection \in collections, checked \in BOOLEAN :
        MemberTick /\ onCollectionCheckChanged(<<id>>, collection, checked)

MemberCheckTwo ==
    \E id1 \in Ids, id2 \in Ids, collection \in collections, checked \in BOOLEAN :
        id1 # id2 /\ MemberTick /\ onCollectionCheckChanged(<<id1, id2>>, collection, checked)

MemberMove ==
    \E id \in Ids, collName \in collections : MemberTick /\ MoveToCollection(id, collName)

MemberCopy ==
    \E id \in Ids, collName \in collections : MemberTick /\ CopyToCollection(id, collName)

NextMembers ==
    \/ MemberCreate
    \/ MemberAdd
    \/ MemberCheck
    \/ MemberCheckTwo
    \/ MemberMove
    \/ MemberCopy

SpecMembers == Init /\ [][NextMembers]_vars

----------------------------------------------------------------------------
(* Specification of parseBibTeXFile, with the connector writing attachment  *)
(* files after the call (both run on the one event loop)                    *)

MaxAttachSteps == 2

\* the texts of the .bib files
BibTexts ==
    { "",
      "x @ y",
      "@a{k, title={T}} @b{n, title={U",
      "@a{k, title={T}",
      "@a(k, title={T}",
      "@a{k, year=1, bad, title={T}}",
      "@a{k, bad x, title={T}, doi={d}}",
      "@a{k, foo={v}, note={n}}",
      "@a{k, note={n}, foo={v}, Bar=w}",
      "@a{k, title=\"a,,\"}",
      "@a{k, file={p}, doi={d}}",
      "@a{k, doi={d}, file={p;x:p:m}}",
      "@a{, author={b, c}, year=1, file={p}}",
      "@a{k, isbn={i}, file={q:m}}",
      "@a{k, file={p:m}}",
      "@a{k, title={T}} junk @b{n, doi={d}, file={p}}@c{m,doi={d},file={p}}" }

\* whether copy_file succeeds, segment by segment
CopyOutcomes == {<<TRUE, TRUE>>, <<TRUE, FALSE>>, <<FALSE, TRUE>>, <<FALSE, FALSE>>}

\* requests with attachments: two files of one name, and a second request
\* for the same record
AttachPayloads ==
    { Data([doi |-> D1, attachments |-> <<Att1, Att1>>]),
      Data([isbn |-> I1, attachments |-> <<Att1>>]) }

\* the files next to the .bib file
InitParse ==
    /\ items = {SeedRow}
    /\ collections = {SeedCollection}
    /\ item_collections = {[item_id |-> SeedId, collection |-> SeedCollection]}
    /\ files \in {{}, {P1}}
    /\ uuids = 0
    /\ steps = 0
    /\ last = [op |-> "init"]
    /\ ParserIdle
    /\ SocketIdle

storeVars == <<items, collections, item_collections, uuids, steps, last>>

\* lines 17-24: the file is read
OpenBib ==
    \E text \in BibTexts :
        /\ pc = "idle"
        /\ content' = Chars(text)
        /\ pos' = 1
        /\ out' = <<>>
        /\ pc' = "scan"
        /\ UNCHANGED <<entry, j, cur, field, files>>
        /\ UNCHANGED <<storeVars, socketVars>>

\* lines 66-110: the head of one iteration of the entry loop
ScanEntry ==
    /\ pc = "scan"
    /\ entry' = EntryHeader(content, pos)
    /\ pc' = IF entry'.stop THEN "done" ELSE "fields"
    /\ j' = 1
    /\ cur' = [Item EXCEPT !.type = entry'.entryType]
    /\ UNCHANGED <<content, pos, out, field, files>>
    /\ UNCHANGED <<storeVars, socketVars>>

\* lines 114-285: one iteration of the field loop
ParseField ==
    \E copies \in CopyOutcomes :
        LET r == FieldIteration(entry.fields, j, cur, entry.citationKey, files, copies)
        IN /\ pc = "fields"
           /\ j <= Len(entry.fields)
           /\ j' = r.j
           /\ cur' = r.cur
           /\ files' = r.files
           /\ field' = r.field
           /\ UNCHANGED <<content, pos, out, pc, entry>>
           /\ UNCHANGED <<storeVars, socketVars>>

\* lines 287-291: the end of the iteration of the entry loop
EmitEntry ==
    /\ pc = "fields"
    /\ j > Len(entry.fields)
    /\ out' = IF Meaningful(cur, entry.citationKey) THEN Append(out, cur) ELSE out
    /\ pos' = entry.i
    /\ pc' = "scan"
    /\ UNCHANGED <<content, entry, j, cur, field, files>>
    /\ UNCHANGED <<storeVars, socketVars>>

SaveAttachments ==
    \E data \in AttachPayloads, accept \in BOOLEAN :
        \E opens \in [1..Len(data.attachments) -> BOOLEAN] :
            /\ pc = "done"
            /\ steps < MaxAttachSteps
            /\ steps' = steps + 1
            /\ UNCHANGED <<parserVars, socketVars>>
            /\ ConnectorSave(data, opens, accept)

NextParse == OpenBib \/ ScanEntry \/ ParseField \/ EmitEntry \/ SaveAttachments

SpecParse == InitParse /\ [][NextParse]_vars

----------------------------------------------------------------------------
(* Specification of the connector's socket: connections are accepted one    *)
(* after the other, and the bytes of each arrive in chunks of any size.     *)

MaxConnections == 1

\* the byte streams of the clients; {d} and {a} stand for the JSON texts of
\* two requests
Streams ==
    { "POST /connector/save\r\nContent-Length: 3\r\n\r\n{d}",
      "POST /connector/save\r\ncontent-length:3\r\n\r\n{a}{d}",
      "POST /connector/save\r\n\r\n{d}",
      "POST /connector/save\r\nContent-Length: 5\r\n\r\n{d}",
      "POST /connector/save\r\nContent-Length: -1\r\n\r\n{d}",
      "GET /connector/status\r\n\r\n",
      "x\r\n\r\n" }

\* line 125, QJsonDocument::fromJson(body), and line 133, the data object
ParseBody(body) ==
    IF body = Chars("{d}")
    THEN [isObject |-> TRUE, data |-> Data([doi |-> D1, attachments |-> <<Att1>>])]
    ELSE IF body = Chars("{a}")
    THEN [isObject |-> TRUE, data |-> Data([title |-> T1, authors |-> A1])]
    ELSE [isObject |-> FALSE, data |-> NoData]

\* line 35: a connection is accepted, with a buffer and a flag of its own
Connect ==
    \E text \in Streams :
        /\ steps < MaxConnections
        /\ arrived = Len(stream)
        /\ steps' = steps + 1
        /\ stream' = Chars(text)
        /\ arrived' = 0
        /\ buffer' = <<>>
        /\ processed' = FALSE
        /\ handled' = <<>>
        /\ UNCHANGED <<items, collections, item_collections, files, uuids, last>>
        /\ UNCHANGED parserVars

\* lines 39-302: n more bytes arrive and the handler runs
ReadyRead ==
    \E n \in 1..(Len(stream) - arrived) :
        LET h == readyRead(buffer, processed, SubSeq(stream, Len(buffer) + 1, arrived + n))
            p == ParseBody(h.request.body)
        IN /\ arrived' = arrived + n
           /\ buffer' = h.buffer
           /\ processed' = h.processed
           /\ handled' = IF h.dispatched THEN Append(handled, h.request) ELSE handled
           /\ UNCHANGED <<stream, steps>>
           /\ UNCHANGED parserVars
           /\ \/ /\ ~h.dispatched
                 /\ UNCHANGED <<items, collections, item_collections, files, uuids, last>>
              \/ /\ h.dispatched /\ h.request.route # "save"
                 /\ last' = [op |-> h.request.route]
                 /\ UNCHANGED <<items, collections, item_collections, files, uuids>>
              \/ /\ h.dispatched /\ h.request.route = "save" /\ ~p.isObject
                 /\ last' = [op |-> "reject", ok |-> FALSE, createdId |-> Empty]
                 /\ UNCHANGED <<items, collections, item_collections, files, uuids>>
              \/ /\ h.dispatched /\ h.request.route = "save" /\ p.isObject
                 /\ \E accept \in BOOLEAN :
                       \E opens \in [1..Len(p.data.attachments) -> BOOLEAN] :
                           ConnectorSave(p.data, opens, accept)

NextSocket == Connect \/ ReadyRead

SpecSocket == Init /\ [][NextSocket]_vars

----------------------------------------------------------------------------
(* The primary collection column: records are added, checked into and out   *)
(* of collections, and saved by the connector with and without a collection *)

MaxPrimarySteps == 3

CB == <<"B">>

\* requests for one record, by its DOI
PrimaryPayloads ==
    { Data([doi |-> D1]),
      Data([doi |-> D1, collection |-> C1]),
      Data([doi |-> D1, collection |-> CB]) }

PrimaryTick == steps < MaxPrimarySteps /\ steps' = steps + 1 /\ UNCHANGED <<parserVars, socketVars>>

PrimarySave ==
    \E data \in PrimaryPayloads, accept \in BOOLEAN :
        PrimaryTick /\ ConnectorSave(data, <<>>, accept)

PrimaryCheck ==
    \E id \in Ids, collection \in collections, checked \in BOOLEAN :
        PrimaryTick /\ onCollectionCheckChanged(<<id>>, collection, checked)

PrimaryAdd == \E selected \in collections \cup {Empty} : PrimaryTick /\ onAdd(selected, TRUE)

NextPrimary ==
    \/ PrimarySave
    \/ PrimaryCheck
    \/ PrimaryAdd

SpecPrimary == Init /\ [][NextPrimary]_vars

----------------------------------------------------------------------------
(* Deleting records: records are added, the file P1 of the user is attached *)
(* to them, the connector stores an attachment, and records are deleted.    *)

MaxDeleteSteps == 4

\* the fresh store, with the file P1 on the disk
InitDelete ==
    /\ items = {SeedRow}
    /\ collections = {SeedCollection}
    /\ item_collections = {[item_id |-> SeedId, collection |-> SeedCollection]}
    /\ files = {P1}
    /\ uuids = 0
    /\ steps = 0
    /\ last = [op |-> "init"]
    /\ ParserIdle
    /\ SocketIdle

DeleteTick == steps < MaxDeleteSteps /\ steps' = steps + 1 /\ UNCHANGED <<parserVars, socketVars>>

DeleteAdd == DeleteTick /\ onAdd(Empty, TRUE)

DeleteAttach ==
    \E id \in Ids, accept \in BOOLEAN : DeleteTick /\ AddAttachments(id, <<P1>>, accept)

DeleteSave ==
    \E opens \in [1..1 -> BOOLEAN] :
        DeleteTick /\ ConnectorSave(Data([isbn |-> I1, attachments |-> <<Att1>>]), opens, TRUE)

DeleteOne == \E id \in Ids : DeleteTick /\ DeleteItem(id)

NextDelete ==
    \/ DeleteAdd
    \/ DeleteAttach
    \/ DeleteSave
    \/ DeleteOne

SpecDelete == InitDelete /\ [][NextDelete]_vars

----------------------------------------------------------------------------
(* Properties *)

Row(rows, id) == CHOOSE r \in rows : r.id = id

Memberships(rows, id) == {x.collection : x \in {y \in rows : y.item_id = id}}

\* an entry or request carries an identity key
HasIdentityKey(it) == it.doi # Empty \/ it.isbn # Empty \/ (it.title # Empty /\ it.authors # Empty)

\* a stored row carries the identity keys of it
StoredAs(r, it) ==
    r.doi = it.doi /\ r.isbn = it.isbn /\ r.title = it.title /\ r.authors = it.authors

AllAccepted(accepts) == \A k \in DOMAIN accepts : accepts[k]

\* C1: a second importBibTeX of the same file into the same collection, each
\* entry of which carries an identity key and is already stored, leaves the
\* number of stored records unchanged.
C1_ReimportAddsNoRecord ==
    [][(/\ last.op = "import" /\ last.format = "bib"
        /\ last'.op = "import" /\ last'.format = "bib"
        /\ last'.parsed = last.parsed /\ last'.collection = last.collection
        /\ \A k \in 1..Len(last.parsed) :
              /\ HasIdentityKey(last.parsed[k])
              /\ \E r \in items : StoredAs(r, last.parsed[k]))
       => Cardinality(items') = Cardinality(items)]_vars

\* the rows whose key equals a non-empty key of the candidate, string for string
ByDoi(rows, it) == {r \in rows : it.doi # Empty /\ r.doi = it.doi}

ByIsbn(rows, it) == {r \in rows : it.isbn # Empty /\ r.isbn = it.isbn}

ByTitleAuthors(rows, it) ==
    {r \in rows : it.title # Empty /\ it.authors # Empty
                  /\ r.title = it.title /\ r.authors = it.authors}

\* C2: the identity resolution of a connector save returns a record with the
\* candidate's DOI if there is one, else one with its ISBN, else one with its
\* title and authors, else New.
C2_ResolutionByPriority ==
    [][last'.op = "save" =>
        LET it == last'.it
            expected == IF ByDoi(items, it) # {} THEN ByDoi(items, it)
                        ELSE IF ByIsbn(items, it) # {} THEN ByIsbn(items, it)
                        ELSE ByTitleAuthors(items, it)
        IN IF expected = {} THEN ~last'.found
           ELSE last'.found /\ \E r \in expected : r.id = last'.createdId]_vars

\* C3: a merge, and the store update that follows it, leave every non-empty
\* canonical scalar field of the matched record as it was.
C3_MergeKeepsNonEmpty ==
    [][(last'.op = "save" /\ last'.found) =>
        \A r \in items : r.id = last'.createdId =>
            \A f \in ScalarFields : (r[f] # Empty /\ r[f] # Null) =>
                \A r2 \in items' : r2.id = r.id => r2[f] = r[f]]_vars

\* C3 witness: a stored year met a different incoming year in an accepted merge
C3_Witness ==
    /\ last.op = "save" /\ last.found /\ last.accept
    /\ last.it.year = Y2
    /\ Row(items, last.createdId).year = Y1

\* C4: a record imported (file import or connector save, the write accepted)
\* with the DOI of a stored record fills every canonical scalar field that is
\* empty on the stored record and non-empty on the incoming one.
FillsEmptyFields(incoming) ==
    \A r \in items : (incoming.doi # Empty /\ r.doi = incoming.doi) =>
        \A f \in ScalarFields : (incoming[f] # Empty /\ r[f] = Empty) =>
            \E r2 \in items' : r2.id = r.id /\ r2[f] = incoming[f]

C4_ImportFillsEmptyFields ==
    [][/\ (last'.op = "save" /\ last'.accept) => FillsEmptyFields(last'.it)
       /\ (last'.op = "import" /\ AllAccepted(last'.accepts)) =>
              \A k \in 1..Len(last'.parsed) : FillsEmptyFields(last'.parsed[k])]_vars

\* C5: an accepted merge of the incoming record that was merged just before
\* leaves the stored record as the first merge left it.
C5_MergeIdempotent ==
    [][(/\ last.op = "save" /\ last.found /\ last.accept
        /\ last'.op = "save" /\ last'.found /\ last'.accept
        /\ last'.it = last.it)
       => Row(items', last'.createdId) = Row(items, last'.createdId)]_vars

\* C6: no path occurs twice in the attachment list of a stored record.
C6_NoDuplicatePath ==
    \A r \in items : \A m, n \in 1..Len(r.pdf_path) :
        r.pdf_path[m] = r.pdf_path[n] => m = n

\* C7: an accepted merge of a request that names the collection c leaves the matched
\* record with its previous memberships and c, and c is a collection.
C7_MergeAddsCollection ==
    [][(last'.op = "save" /\ last'.found /\ last'.accept
        /\ last'.it.collection # Empty) =>
        /\ Memberships(item_collections', last'.createdId)
             = Memberships(item_collections, last'.createdId) \cup {last'.it.collection}
        /\ last'.it.collection \in collections']_vars

\* C8: after an accepted merge the stored extra map holds, for every incoming
\* key, the incoming value if the existing map lacks the key or holds an empty
\* or whitespace-only string for it and the existing value otherwise, and
\* every other existing key with its value.
IsBlankValue(v) == v.t = "str" /\ IsBlank(v.s)

C8_ExtraMerge ==
    [][(last'.op = "save" /\ last'.found /\ last'.accept) =>
        LET old    == ParseExtra(RowToItem(Row(items, last'.createdId)).extra)
            new    == ParseExtra(last'.it.extra)
            stored == ParseExtra(Row(items', last'.createdId).extra)
        IN /\ DOMAIN stored = DOMAIN old \cup DOMAIN new
           /\ \A k \in DOMAIN new :
                 stored[k] = IF k \notin DOMAIN old \/ IsBlankValue(old[k])
                             THEN new[k] ELSE old[k]
           /\ \A k \in DOMAIN old \ DOMAIN new : stored[k] = old[k]]_vars

\* C9: no two stored records share an identifier; an accepted insert of an
\* import, a connector save or the Add button gives the record an identifier
\* no stored record has, so an import of N entries adds N identifiers; and
\* the other store operations leave the set of identifiers as it is (a
\* deletion only removes from it).
UniqueIds == \A r1, r2 \in items : r1.id = r2.id => r1 = r2

IdsOf(rows) == {r.id : r \in rows}

C10_CountIsStored ==
    [][last'.op = "import" => last'.count = Cardinality(items') - Cardinality(items)]_vars

DepthAt(text, start, e, openChar, closeChar) ==
    1 + Cardinality({k \in (start + 1)..e : text[k] = openChar})
      - Cardinality({k \in (start + 1)..e : text[k] = closeChar})

\* the entry that starts at the first '@' from position from on has an opening
\* delimiter and no matching close
Unterminated(text, from) ==
    \E at \in from..Len(text) :
        /\ text[at] = "@"
        /\ \A k \in from..(at - 1) : text[k] # "@"
        /\ \E start \in at..Len(text) :
              /\ text[start] \in {"{", "("}
              /\ \A k \in at..(start - 1) : text[k] \notin {"{", "("}
              /\ \A e \in (start + 1)..Len(text) :
                    DepthAt(text, start, e, text[start],
                            IF text[start] = "{" THEN "}" ELSE ")") > 0

\* C12: at an entry without matching close the parser stops with the records
\* it has emitted, and a parser that has stopped emits nothing more.
C12_UnterminatedEndsParse ==
    /\ [][(pc = "scan" /\ Unterminated(content, pos)) => (pc' = "done" /\ out' = out)]_vars
    /\ [][pc = "done" => (pc' = "done" /\ out' = out)]_vars

\* C12 witness: the entry before the unterminated one is the result
C12_Witness ==
    /\ pc = "done"
    /\ content = Chars("@a{k, title={T}} @b{n, title={U")
    /\ Len(out) = 1 /\ out[1].title = <<"T">>

\* the first position from from on whose character fails Test (behind the
\* text if there is none)
FirstFailing(text, from, Test(_)) ==
    CHOOSE k \in from..(Len(text) + 1) :
        /\ k = Len(text) + 1 \/ ~Test(text[k])
        /\ \A m \in from..(k - 1) : Test(text[m])

IsNameChar(c) == isLetterOrNumber(c) \/ c \in {"_", "-"}

\* the position behind the name of the field at the cursor and the blanks
\* around it
BehindName(fields, from) ==
    FirstFailing(fields, FirstFailing(fields, FirstFailing(fields, from, isSpace), IsNameChar),
                 isSpace)

\* the field at the cursor has a name that no '=' follows
NoEqualsAt(fields, from) ==
    /\ FirstFailing(fields, from, isSpace) <= Len(fields)
    /\ BehindName(fields, from) > Len(fields) \/ fields[BehindName(fields, from)] # "="

\* the position behind the next comma from the end of the field's name on
AfterNextComma(fields, from) ==
    LET c == indexOf(fields, ",", BehindName(fields, from))
    IN IF BehindName(fields, from) > Len(fields) \/ c = 0 THEN Len(fields) + 1 ELSE c + 1

\* C13: a field without '=' is dropped alone: the fields assigned before stay,
\* the field loop goes on behind the next comma, and the entry is not given up.
C13_MalformedFieldDropped ==
    [][(pc = "fields" /\ j <= Len(entry.fields) /\ NoEqualsAt(entry.fields, j)) =>
        /\ pc' = "fields"
        /\ cur' = cur /\ out' = out
        /\ j' = AfterNextComma(entry.fields, j)]_vars

\* C13 witness: the fields around the malformed one are in the emitted record
C13_Witness ==
    /\ pc = "done"
    /\ content = Chars("@a{k, year=1, bad, title={T}}")
    /\ Len(out) = 1 /\ out[1].year = <<"1">> /\ out[1].title = <<"T">>

\* QString::split for the separator "; "
RECURSIVE NoteParts(_)
NoteParts(note) ==
    LET hits == {k \in 1..(Len(note) - 1) : note[k] = ";" /\ note[k + 1] = " "}
        k    == CHOOSE h \in hits : \A g \in hits : h <= g
    IN IF hits = {} THEN {note}
       ELSE {SubSeq(note, 1, k - 1)} \cup NoteParts(SubSeq(note, k + 2, Len(note)))

\* the fragment of an unrecognized field
Fragment(name, v) == name \o <<" ", "=", " ", "{">> \o v \o <<"}">>

IsFragment(part) ==
    /\ part # <<>> /\ part[Len(part)] = "}"
    /\ \E k \in 1..(Len(part) - 3) : SubSeq(part, k, k + 3) = <<" ", "=", " ", "{">>

\* C14: a field that is neither canonical nor file puts its fragment into the
\* note, and the fragments in the note stay there until the entry is emitted.
C14_UnknownFieldsInNote ==
    [][(pc = "fields" /\ pc' = "fields") =>
        /\ (field'.read /\ Str(field'.name) \notin FieldNames \cup {"file"}) =>
              Fragment(field'.name, cleanValue(field'.value)) \in NoteParts(cur'.note)
        /\ \A part \in NoteParts(cur.note) :
              IsFragment(part) => part \in NoteParts(cur'.note)]_vars

\* the characters the claim is about
CleanAlphabet ==
    {"a", "b", "c", " ", ",", "\"", "\\", "%", "&", "_", "$"}

\* C15: cleaning the cleaned value of a field changes nothing, for raw values
\* without braces.
C15_CleanIdempotent ==
    (pc = "fields" /\ field.read /\ \A k \in 1..Len(field.value) : field.value[k] \in CleanAlphabet)
        => cleanValue(cleanValue(field.value)) = cleanValue(field.value)

\* C16: when the field loop of an entry ends, every attachment of the record
\* lies in the folder named by the record's DOI, else ISBN, else citation key,
\* else author_year.
C16_OneStorageFolder ==
    (pc = "fields" /\ j > Len(entry.fields)) =>
        \A k \in 1..Len(cur.pdf_path) :
            cur.pdf_path[k].dir = StorageFolder(cur, entry.citationKey)

\* the paths a step appended to a list
Appended(before, after) == SubSeq(after, Len(before) + 1, Len(after))

\* the files in written are new, pairwise distinct, named with the least free
\* index, and no file that was there is gone
PlacedWithoutOverwrite(written) ==
    /\ files \subseteq files'
    /\ \A k \in 1..Len(written) :
          /\ written[k] \notin files
          /\ written[k] \in files'
          /\ \A m \in 1..Len(written) : written[m] = written[k] => m = k
          /\ \A n \in 0..(written[k].n - 1) :
                FilePath(written[k].dir, written[k].stem, n) \in files'

\* C17: the attachment files the parser copies and the connector writes go to
\* names that did not exist, the source name first and then stem_N for the
\* least free N, and both paths of a file placed twice are recorded.
C17_NoOverwrite ==
    [][/\ (pc = "fields" /\ pc' = "fields") =>
              PlacedWithoutOverwrite(Appended(cur.pdf_path, cur'.pdf_path))
       /\ (steps' # steps /\ last'.op = "save") =>
              /\ PlacedWithoutOverwrite(last'.savedPaths)
              /\ \A k \in 1..Len(last'.savedPaths) :
                    \E m \in 1..Len(last'.it.pdf_path) :
                        last'.it.pdf_path[m] = last'.savedPaths[k]]_vars

\* C17 witness: one source file was placed twice into one folder
C17_Witness ==
    /\ pc = "fields" /\ Len(cur.pdf_path) = 2
    /\ cur.pdf_path[1] = FilePath(<<"d">>, "p", 0)
    /\ cur.pdf_path[2] = FilePath(<<"d">>, "p", 1)
    /\ {cur.pdf_path[1], cur.pdf_path[2]} \subseteq files

\* C18: a path that the parser puts into a record's attachment list, or the
\* connector into the list of a record it stores, names a file that exists
\* when the path is put there.
C18_AttachmentPathsExist ==
    [][/\ (pc = "fields" /\ pc' = "fields") =>
              \A k \in 1..Len(Appended(cur.pdf_path, cur'.pdf_path)) :
                  Appended(cur.pdf_path, cur'.pdf_path)[k] \in files'
       /\ (steps' # steps /\ last'.op = "save" /\ last'.accept) =>
              \A k \in 1..Len(last'.it.pdf_path) : last'.it.pdf_path[k] \in files']_vars

\* the names of the canonical fields
CanonicalFieldNames ==
    {"title", "author", "year", "doi", "isbn", "publisher", "journal", "pages", "volume",
     "number", "editor", "booktitle", "series", "edition", "chapter", "school",
     "institution", "organization", "howpublished", "language", "keywords", "month",
     "note", "url", "abstract", "address"}

\* C19: no key of the extra blob of a stored record is the name of a
\* canonical field.
C19_ExtraKeysNotCanonical ==
    \A r \in items : DOMAIN ParseExtra(r.extra) \cap CanonicalFieldNames = {}

\* C20: an uncheck removes nothing when a selected item has one membership or
\* fewer, Move to Collection leaves the record a member of the target alone,
\* and neither leaves a record that was in a collection without one.
C20_MembershipNeverEmptied ==
    [][/\ (steps' # steps /\ last'.op = "check" /\ ~last'.checked
             /\ wouldOrphan(Db, last'.sel)) =>
              item_collections' = item_collections
       /\ (steps' # steps /\ last'.op = "move") =>
              Memberships(item_collections', last'.itemId) = {last'.collName}
       /\ (steps' # steps /\ last'.op \in {"check", "move"}) =>
              \A id \in Ids :
                  Memberships(item_collections, id) # {} =>
                      Memberships(item_collections', id) # {}]_vars

\* the strings looked up: the keys of the requests and of the parsed entries
LookupStrings == {D1, I1, T1, TApos, A1, <<"t", "'", "'", "s">>}

\* C21: each of the three lookups returns exactly the stored records whose
\* field equals the lookup string (both fields, for title and authors), so a
\* stored record is found by its own DOI, ISBN or title and authors.
C21_FindExactMatch ==
    \A s \in LookupStrings :
        /\ findItemByDOI(Db, s) = {r \in items : r.doi = s}
        /\ findItemByISBN(Db, s) = {r \in items : r.isbn = s}
        /\ \A t \in LookupStrings :
              findItemByTitleAndAuthor(Db, s, t) =
                  {r \in items : r.title = s /\ r.authors = t}

\* the path of a segment: the second of three parts, the first of two, or
\* the whole segment
SegmentPath(seg) ==
    LET cols == Split(seg, ":")
    IN trimmed(IF Len(cols) >= 3 THEN cols[2]
               ELSE IF Len(cols) = 2 THEN cols[1]
               ELSE seg)

\* the file names attached for the segments from the k-th on: those whose
\* path exists next to the .bib file and whose copy succeeds
RECURSIVE SegmentFiles(_, _, _, _)
SegmentFiles(parts, k, fs, copies) ==
    IF k > Len(parts) THEN <<>>
    ELSE LET path == SegmentPath(trimmed(parts[k]))
         IN (IF path # Empty /\ SourcePath(path) \in fs /\ copies[k]
             THEN <<Str(path)>> ELSE <<>>)
            \o SegmentFiles(parts, k + 1, fs, copies)

\* C22: the step that reads a file field attaches, in order, the files named
\* by the paths of its segments that exist, and nothing for the others.
C22_FileSegmentPaths ==
    [][(pc = "fields" /\ pc' = "fields" /\ field'.read /\ Str(field'.name) = "file") =>
          [k \in 1..Len(Appended(cur.pdf_path, cur'.pdf_path)) |->
              Appended(cur.pdf_path, cur'.pdf_path)[k].stem]
          = SegmentFiles(SkipEmptyParts(Split(cleanValue(field'.value), ";")), 1,
                         files, field'.copied)]_vars

\* the place of a step in the flow of a record
StepRank(step) ==
    IF step = "attachment" THEN 1
    ELSE IF step = "identity" THEN 2
    ELSE IF step = "merge" THEN 3
    ELSE 4

\* C23: an import and a connector save run the steps of a record in the
\* order attachment resolution, identity resolution, merge, store write.
C23_StepsInOrder ==
    [][(steps' # steps /\ last'.op \in {"save", "import"}) =>
          \A a, b \in 1..Len(last'.order) :
              a < b => StepRank(last'.order[a]) <= StepRank(last'.order[b])]_vars

\* C24: a connection dispatches its request at most once; once it has, a
\* later readyRead reads nothing and changes neither the store nor the files.
C24_DispatchedOnce ==
    [][/\ Len(handled') <= 1
       /\ (processed /\ steps' = steps) =>
              /\ buffer' = buffer
              /\ handled' = handled
              /\ UNCHANGED <<items, collections, item_collections, files, uuids, last>>]_vars

\* C24 witness: the save was dispatched and bytes that arrived later stay unread
C24_Witness ==
    /\ processed /\ Len(handled) = 1 /\ handled[1].route = "save"
    /\ last.op = "save" /\ Cardinality(items) = 2
    /\ arrived = Len(stream) /\ Len(buffer) < arrived

\* the position of the first body byte of a stream, 0 without header terminator
BodyStart(bytes) ==
    IF IndexOfSeq(bytes, HeaderEnd) = 0 THEN 0
    ELSE IndexOfSeq(bytes, HeaderEnd) + Len(HeaderEnd)

\* the Content-Length a stream declares
DeclaredLength(bytes) ==
    ContentLength(Split(SubSeq(bytes, 1, IndexOfSeq(bytes, HeaderEnd) - 1), "\n"), 1)

\* C25: a request is dispatched when the header terminator and as many body
\* bytes as declared have arrived, with the declared number of bytes behind
\* the terminator as its body, however the stream is split.
C25_DispatchAfterContentLength ==
    [][Len(handled') > Len(handled) =>
          /\ BodyStart(SubSeq(stream, 1, arrived')) # 0
          /\ arrived' - BodyStart(stream) + 1 >= DeclaredLength(stream)
          /\ handled'[Len(handled')].body =
                SubSeq(stream, BodyStart(stream), BodyStart(stream) + DeclaredLength(stream) - 1)]_vars

\* the store after the step
DbAfter ==
    [items |-> items', collections |-> collections', item_collections |-> item_collections']

\* the name a collection at or below oldName carries after the rename
Renamed(c, oldName, newName) ==
    IF c = oldName THEN newName
    ELSE newName \o SubSeq(c, Len(oldName) + 1, Len(c))

\* C26: after renameCollection(old, new), new not existing before, every
\* record listed in old is listed in new, and every membership in old or in
\* a subcollection of old has become a membership in the renamed collection.
C26_RenameCarriesMemberships ==
    [][(last'.op = "rename" /\ last'.oldName # last'.newName
        /\ last'.newName \notin collections) =>
          /\ \A r \in listItemsInCollection(Db, last'.oldName) :
                /\ \E q \in listItemsInCollection(DbAfter, last'.newName) : q.id = r.id
                /\ \E k \in DOMAIN getItemCollections(DbAfter, r.id) :
                      getItemCollections(DbAfter, r.id)[k] = last'.newName
                /\ \A k \in DOMAIN getItemCollections(DbAfter, r.id) :
                      getItemCollections(DbAfter, r.id)[k] # last'.oldName
          /\ \A x \in item_collections :
                (x.collection = last'.oldName \/ HasPrefix(x.collection, last'.oldName \o <<"/">>)) =>
                    /\ [x EXCEPT !.collection = Renamed(@, last'.oldName, last'.newName)]
                          \in item_collections'
                    /\ x \notin item_collections']_vars

\* C27: every membership row names a collection of the collections table
\* and a record of the items table, and after deleteCollection(c) no
\* membership row names c or a subcollection of c.
C27_MembershipsReferToRows ==
    [][/\ \A x \in item_collections' :
            /\ x.collection \in collections'
            /\ \E r \in items' : r.id = x.item_id
       /\ last'.op = "deleteCollection" =>
            \A x \in item_collections' :
                /\ x.collection # last'.name
                /\ ~HasPrefix(x.collection, last'.name \o <<"/">>)]_vars

\* C28: the collection column of every record is the first collection that
\* getItemCollections returns for it, and is empty when it returns none.
C28_PrimaryIsFirstCollection ==
    \A r \in items :
        r.collection = IF getItemCollections(Db, r.id) = <<>> THEN Empty
                       ELSE getItemCollections(Db, r.id)[1]

\* C29: deleteItem(id) removes the record and its membership rows, leaves
\* every other record and membership row as it was, and leaves every file
\* that another record's attachment list names on the disk.
C29_DeleteLeavesOthers ==
    [][last'.op = "deleteItem" =>
          /\ items' = {r \in items : r.id # last'.id}
          /\ item_collections' = {x \in item_collections : x.item_id # last'.id}
          /\ \A r \in items' : \A k \in 1..Len(r.pdf_path) :
                r.pdf_path[k] \in files => r.pdf_path[k] \in files']_vars

\* C30: the response of POST /connector/save carries success = true and an
\* id only when the store accepted the write and the record with that id is
\* in the store; a body that is not a JSON object is answered success = false.
C30_SuccessMeansStored ==
    [][/\ (last'.op = "save" /\ last'.ok /\ last'.createdId # Empty) =>
              /\ last'.accept
              /\ \E r \in items' : r.id = last'.createdId /\ r.doi = last'.it.doi
       /\ last'.op = "reject" => ~last'.ok]_vars

====
